---- MODULE Spec2Model ----
(***************************************************************************)
(* form-mcp: an MCP server that creates HTML forms (createForm), serves    *)
(* and accepts them over HTTP (GET/POST /forms/:id) and reports the        *)
(* submission (getResponses), with one StreamableHTTP session per client.  *)
(*                                                                         *)
(* The repository holds several builds of the same program; the model      *)
(* carries the build in the variable `variant`, fixed by Init:             *)
(*   "index"        unnamed/part_004 (module-level McpServer) with the     *)
(*                  write-through Storage of src/storage.ts                *)
(*   "indexReload"  unnamed/part_004 with the Storage of unnamed/part_003, *)
(*                  whose getForm reloads forms.json before every read     *)
(*   "createServer" README.md 629-878: one McpServer per session over an   *)
(*                  in-memory Map (its HTTP form endpoints are not in the  *)
(*                  sources, so the form endpoints are off in this build)  *)
(*   "createMcpServer" README.md 879-1142: the tools are registered on one  *)
(*                  McpServer, every session is connected to a new one of  *)
(*                  its own on which nothing is registered                 *)
(*   "stdio"        unnamed/part_005: the earlier build, one Server on a   *)
(*                  stdio transport; only its createForm is modelled       *)
(*                                                                         *)
(* Node runs handlers on one thread: a handler is atomic up to an await on *)
(* real I/O.  Awaiting a plain value (storage.ts getForm) only yields to   *)
(* the microtask queue, so such a handler is one action.  part_003's       *)
(* getForm awaits readFile: the handler is split at the read.              *)
(***************************************************************************)
EXTENDS Integers, Sequences, FiniteSets, TLC

(* ------------------------------ bounds --------------------------------- *)
\* forms that createForm may allocate
MaxForms == 1
\* sessions that may be initialized over the run
MaxSessions == 2
\* handlers suspended in readFile at the same time
MaxInflight == 1
\* writeFile calls pending at the same time
MaxWrites == 1
\* POST /forms requests received over the run
MaxPosts == 2
\* forms that createForm may allocate where only the tool calls run
MaxCreates == 2
\* writeFile calls pending at the same time where the writes overlap
MaxOverlap == 2
\* TCP connections the bridge accepts over the run
MaxConnections == 2

(* ------------------------------ values --------------------------------- *)
\* A request-body value: undefined, a string, or an array of strings
\* (express.urlencoded({extended: true}) yields arrays for repeated keys).
Undefined == [kind |-> "undefined", items |-> <<>>]
Str(s) == [kind |-> "string", items |-> <<s>>]
Arr(l) == [kind |-> "array", items |-> l]

\* a truthiness under which only undefined is falsy
TruthyIfDefined(v) == v.kind # "undefined"

\* JavaScript truthiness of a body value: undefined and "" are falsy.
Truthy(v) == v.kind = "array" \/ (v.kind = "string" /\ v.items[1] # "")

\* String.prototype.trim on the model's alphabet: " " is the only
\* whitespace-only string.
trim(s) == IF s = " " THEN "" ELSE s

\* Array.prototype.includes on a list of strings
includes(list, s) == \E i \in 1..Len(list) : list[i] = s

\* obj[k] = v on an object modelled as a function
Put(f, k, v) == [x \in (DOMAIN f) \cup {k} |-> IF x = k THEN v ELSE f[x]]

EmptyObj == [x \in {} |-> x]

(* ------------------------------ schemas -------------------------------- *)
NoOptions == [present |-> FALSE, items |-> <<>>]
Options(l) == [present |-> TRUE, items |-> l]

\* A field as received by createForm: id / name are "" when the caller
\* did not send them.
Field(id, name, type, required, options) ==
  [id |-> id, name |-> name, type |-> type, required |-> required, options |-> options]

\* a valid definition: a required text field and an optional select that
\* the caller identifies by name only
FormSchema ==
  [title |-> "T", fields |-> << Field("f", "", "text", TRUE, NoOptions),
                                Field("", "g", "select", FALSE, Options(<<"a", "b">>)) >>]
\* a definition createForm must refuse: a choice field without options
NoOptionsSchema ==
  [title |-> "N", fields |-> << Field("f", "", "radio", TRUE, NoOptions) >>]

\* the definitions a caller may pass to createForm
SchemaInputs == {FormSchema, NoOptionsSchema}

\* what a caller may pass as a definition when the parts of it matter: also
\* a checkbox with an empty options array, a definition without title, one
\* without the fields attribute, one with an empty fields list, one whose
\* field has neither id nor name, an email field and a field of a kind the
\* type enum does not list
EmptyOptionsSchema ==
  [title |-> "O", fields |-> << Field("f", "", "checkbox", FALSE, Options(<<>>)) >>]
NoTitleSchema == [fields |-> << Field("f", "", "text", TRUE, NoOptions) >>]
NoFieldsSchema == [title |-> "M"]
EmptyFieldsSchema == [title |-> "E", fields |-> << >>]
NoIdSchema == [title |-> "I", fields |-> << Field("", "", "text", TRUE, NoOptions) >>]
EmailSchema == [title |-> "@", fields |-> << Field("f", "", "email", TRUE, NoOptions) >>]
UnknownKindSchema ==
  [title |-> "D", fields |-> << Field("f", "", "date", TRUE, NoOptions) >>]
\* two fields with the same id, and a field whose name is the id of another
SameIdSchema ==
  [title |-> "S", fields |-> << Field("f", "", "text", TRUE, NoOptions),
                                Field("f", "", "textarea", FALSE, NoOptions) >>]
SameNameSchema ==
  [title |-> "A", fields |-> << Field("f", "", "text", TRUE, NoOptions),
                                Field("", "f", "textarea", FALSE, NoOptions) >>]
SchemaCases ==
  SchemaInputs \cup {EmptyOptionsSchema, NoTitleSchema, NoFieldsSchema, EmptyFieldsSchema,
                     NoIdSchema, EmailSchema, UnknownKindSchema, SameIdSchema,
                     SameNameSchema}

FieldIds == {"f", "g"}

\* the field values the clients of the model send: two different valid
\* answers, an answer whose required field is missing while the other field
\* is valid, and a repeated key on the text field
DataInputs ==
  { [f |-> Str("a"), g |-> Str("a")],
    [f |-> Str("c"), g |-> Undefined],
    [f |-> Undefined, g |-> Str("a")],
    [f |-> Arr(<<"a">>), g |-> Undefined] }

\* the urlencoded bodies a client may POST to /forms/id: csrf_token is the
\* id or not (0: absent or anything else), then the field values
Bodies(id) ==
  [csrf_token : {id}, data : DataInputs]
  \cup {[csrf_token |-> 0, data |-> [f |-> Str("a"), g |-> Str("a")]]}

NoBody == [csrf_token |-> 0, data |-> [f |-> Undefined, g |-> Undefined]]

(* --------------------------- validateFormData -------------------------- *)
\* One iteration of the loop over schema.fields; acc carries errors,
\* responses and whether value.trim() threw (value an array on a required
\* non-checkbox field).
validateField(acc, field, data) ==
  LET value == IF field.id \in DOMAIN data THEN data[field.id] ELSE Undefined
      boxes == IF value.kind = "undefined" THEN Arr(<<>>)
               ELSE IF value.kind = "array" THEN value
               ELSE Arr(<<value.items[1]>>)
      stored == IF field.type = "checkbox" THEN boxes
                ELSE IF Truthy(value) THEN value ELSE Str("")
      throws == /\ field.type # "checkbox"
                /\ field.required
                /\ value.kind = "array"
      isRequiredErr ==
        IF field.type = "checkbox"
        THEN field.required /\ Len(boxes.items) = 0
        ELSE field.required /\ (~Truthy(value) \/ trim(value.items[1]) = "")
      isOptionErr ==
        /\ field.type \in {"radio", "select"}
        /\ Truthy(value)
        /\ field.options.present
        /\ ~(value.kind = "string" /\ includes(field.options.items, value.items[1]))
      isBoxErr ==
        /\ field.type = "checkbox"
        /\ field.options.present
        /\ Len(boxes.items) > 0
        /\ \E i \in 1..Len(boxes.items) : ~includes(field.options.items, boxes.items[i])
      e1 == IF isRequiredErr THEN Put(acc.errors, field.id, "required") ELSE acc.errors
      e2 == IF isOptionErr THEN Put(e1, field.id, "invalid option") ELSE e1
      e3 == IF isBoxErr THEN Put(e2, field.id, "invalid options") ELSE e2
  IN IF acc.threw THEN acc
     ELSE IF throws
          THEN [errors |-> acc.errors,
                responses |-> Put(acc.responses, field.id, stored),
                threw |-> TRUE]
          ELSE [errors |-> e3,
                responses |-> Put(acc.responses, field.id, stored),
                threw |-> FALSE]

RECURSIVE validateLoop(_, _, _, _)
validateLoop(acc, fields, i, data) ==
  IF i > Len(fields) THEN acc
  ELSE validateLoop(validateField(acc, fields[i], data), fields, i + 1, data)

validateFormData(schema, data) ==
  validateLoop([errors |-> EmptyObj, responses |-> EmptyObj, threw |-> FALSE],
               schema.fields, 1, data)

\* The fields and values validateFormData is applied to on its own: every
\* field kind of schemaType, required or not, without options, with an
\* empty options array and with options; absent, empty, blank, listed and
\* foreign strings, and the arrays a repeated key or a JSON body yields.
FieldTypes == {"text", "textarea", "select", "radio", "checkbox", "email"}
ProbeFields ==
  {Field("f", "", t, r, o) :
     t \in FieldTypes, r \in BOOLEAN,
     o \in {NoOptions, Options(<<>>), Options(<<"a", "b">>)}}
ProbeValues ==
  {Undefined, Str(""), Str(" "), Str("a"), Str("c"),
   Arr(<<>>), Arr(<<"a">>), Arr(<<"a", "c">>)}

(* ------------------------------- state --------------------------------- *)
VARIABLES
  variant,      \* which build of the repository runs (fixed by Init)
  forms,        \* Storage.forms / inMemoryStorage: form id -> record
  disk,         \* the content of forms.json, or NoFile
  writes,       \* snapshots handed to writeFile and not yet written
  inflight,     \* handlers suspended in part_003 reload (await readFile)
  nextForm,     \* number of form ids produced by randomUUID
  transports,   \* the session table: session id -> transport
  sessionId,    \* transport -> its sessionId
  serverOf,     \* transport -> the McpServer instance it was connected to
  conn,         \* McpServer instance -> the transport it is bound to (0: none)
  nextSid,      \* number of session ids produced by randomUUID
  crashed,      \* the process has exited: on an unhandled rejection or after a signal
  resp,         \* the response to the request handled last
  accepted,     \* history: form id -> the responses answered with the success page
  created,      \* history: form id -> the definition createForm stored for it
  closed,       \* history: the session ids deregistered so far
  posts,        \* history: the number of POST /forms requests received
  probe,        \* validateFormData on its own: one field, one value, the result
  shutdown,     \* gracefulShutdown: its phase, the map at the signal, what save() wrote
  bridge        \* tcp-bridge.js: connection -> its socket and its child process

vars == <<variant, forms, disk, writes, inflight, nextForm, transports, sessionId,
          serverOf, conn, nextSid, crashed, resp, accepted, created, closed, posts,
          probe, shutdown, bridge>>

storeVars == <<forms, disk, writes, inflight, nextForm, crashed, accepted, created, posts>>
sessionVars == <<transports, sessionId, serverOf, conn, nextSid, closed>>

Variants == {"index", "indexReload", "createServer"}

\* with the build that serves its tools over stdio
Builds == Variants \cup {"stdio"}

\* the builds with a session table
SessionBuilds == Variants \cup {"createMcpServer"}

NoFile == [exists |-> FALSE, content |-> EmptyObj]
File(m) == [exists |-> TRUE, content |-> m]

FormIds == 1..MaxForms
SessionIds == 1..MaxSessions

\* the module-level McpServer of part_004; the per-session servers of
\* README.md createServer are numbered by their transport
ModuleServer == 0

\* a stored record; responses is {} for null and {r} for the object r
Record(schema, responses, submitted) ==
  [schema |-> schema, responses |-> responses, submitted |-> submitted]

\* history of the success pages sent for one form: how many (2 stands for
\* two or more) and the responses of the first
NoneAccepted == [count |-> 0, first |-> {}]
accept(h, responses) ==
  [count |-> IF h.count = 0 THEN 1 ELSE 2,
   first |-> IF h.count = 0 THEN responses ELSE h.first]

\* a response, with the fields a claim may look at
Response(op, method, id, sid, status, page) ==
  [op |-> op, method |-> method, id |-> id, sid |-> sid, status |-> status,
   page |-> page, code |-> 0, answered |-> TRUE, server |-> ModuleServer,
   submitted |-> FALSE, responses |-> {}, csrf |-> 0, newSid |-> 0,
   errors |-> {}, listed |-> {}]

With(r, k, v) == [r EXCEPT ![k] = v]

NoResponse == Response("none", "", 0, 0, 0, "")

(* ------------------------------ Storage -------------------------------- *)
\* Storage.save: the map is serialized when save() is called and handed to
\* writeFile; only the in-memory Map of README.md createServer is not saved.
save(map) == IF variant = "createServer" THEN writes ELSE writes \cup {map}

\* Storage.setForm
setForm(map, id, formData) == Put(map, id, formData)

\* Storage.getForm of src/storage.ts and Map.get: the record or nothing
getForm(map, id) == IF id \in DOMAIN map THEN {map[id]} ELSE {}

\* part_003 reload: what this.forms is after the read of content; a failed
\* readFile or JSON.parse (ok = FALSE) is logged and leaves the Map as it was
reload(map, content, ok) == IF ok THEN content ELSE map

(* ------------------------- POST /forms/:id ----------------------------- *)
\* a handler that skips the token comparison
csrfUnchecked(body, id) == TRUE

\* CSRF protection: req.body.csrf_token === formId (http-server.ts 75)
csrfValid(body, id) == body.csrf_token = id

\* a handler that re-renders only when every field of the form failed
hasErrorsOnAll(v) == DOMAIN v.errors # {} /\ DOMAIN v.errors = DOMAIN v.responses

\* Object.keys(errors).length > 0 (http-server.ts 82)
hasErrors(v) == DOMAIN v.errors # {}

\* a handler that sets the flag and forgets the values
submitFlagOnly(rec, responses) == Record(rec.schema, rec.responses, TRUE)

\* formData.responses = responses; formData.submitted = true, in one
\* synchronous stretch (http-server.ts 88-89)
submit(rec, responses) == Record(rec.schema, {responses}, TRUE)

\* The handler from the value of getForm on: the response and the Map it
\* leaves, committed = setForm was called (http-server.ts 66-95).
postForms(map, id, body) ==
  LET formData == getForm(map, id)
      rec == CHOOSE r \in formData : TRUE
      v == validateFormData(rec.schema, body.data)
      base == With(Response("POST /forms", "", id, 0, 200, ""), "csrf", body.csrf_token)
      checked == With(base, "errors", DOMAIN v.errors)
  IN IF formData = {}
     THEN [resp |-> With(With(base, "status", 404), "page", "not found"),
           forms |-> map, committed |-> FALSE, threw |-> FALSE]
     ELSE IF rec.submitted
     THEN [resp |-> With(base, "page", "already submitted"),
           forms |-> map, committed |-> FALSE, threw |-> FALSE]
     ELSE IF ~csrfValid(body, id)
     THEN [resp |-> With(With(base, "status", 403), "page", "invalid csrf token"),
           forms |-> map, committed |-> FALSE, threw |-> FALSE]
     ELSE IF v.threw
     THEN [resp |-> Response("POST /forms", "", 0, 0, 0, "unhandled rejection"),
           forms |-> map, committed |-> FALSE, threw |-> TRUE]
     ELSE IF hasErrors(v)
     THEN [resp |-> With(checked, "page", "form with errors"),
           forms |-> map, committed |-> FALSE, threw |-> FALSE]
     ELSE [resp |-> With(With(With(checked, "page", "success"), "submitted", TRUE),
                         "responses", {v.responses}),
           forms |-> setForm(map, id, submit(rec, v.responses)),
           committed |-> TRUE, threw |-> FALSE]

(* ------------------------------ GET /health ---------------------------- *)
\* the forms count of the health response: storage.getAllForms().size
health(map) == Cardinality(DOMAIN map)

(* -------------------------- GET /forms/:id ----------------------------- *)
getForms(map, id) ==
  LET formData == getForm(map, id)
      rec == CHOOSE r \in formData : TRUE
      base == Response("GET /forms", "", id, 0, 200, "")
  IN IF formData = {} THEN With(With(base, "status", 404), "page", "not found")
     ELSE IF rec.submitted THEN With(base, "page", "already submitted")
     ELSE With(base, "page", "form")

(* ------------------------------- tools --------------------------------- *)
\* part_004 createForm, the loop over schema.fields (44-57): a field
\* without id takes its name as id; the result is the normalized definition
\* or the message of the Error thrown.
RECURSIVE normalizeFields(_, _)
normalizeFields(fields, i) ==
  IF i > Len(fields) THEN [ok |-> TRUE, fields |-> fields, error |-> ""]
  ELSE LET field == fields[i]
           id == IF field.id = "" /\ field.name # "" THEN field.name ELSE field.id
       IN IF id = ""
          THEN [ok |-> FALSE, fields |-> fields, error |-> "must have id or name"]
          ELSE IF field.type \in {"select", "radio", "checkbox"}
                  /\ (~field.options.present \/ Len(field.options.items) = 0)
          THEN [ok |-> FALSE, fields |-> fields, error |-> "requires options"]
          ELSE normalizeFields([fields EXCEPT ![i].id = id], i + 1)

\* README.md createServer registers createForm with inputSchema schemaType
\* (types.ts 3-27): title is a string, fields an array of any length, every
\* field needs a string id; options are optional.
schemaType(schema) ==
  /\ "title" \in DOMAIN schema
  /\ "fields" \in DOMAIN schema
  /\ \A i \in 1..Len(schema.fields) :
       schema.fields[i].id # "" /\ schema.fields[i].type \in FieldTypes

\* part_005 createForm, the loop over schema.fields (123-135): the message
\* of the first Error thrown, or ""
RECURSIVE validateFields(_, _)
validateFields(fields, i) ==
  IF i > Len(fields) THEN ""
  ELSE LET field == fields[i]
       IN IF field.id = "" THEN "Invalid field"
          ELSE IF field.type \notin {"text", "textarea", "select", "radio", "checkbox"}
          THEN "Invalid field type"
          ELSE IF field.type \in {"select", "radio", "checkbox"}
                  /\ (~field.options.present \/ Len(field.options.items) = 0)
          THEN "requires options"
          ELSE validateFields(fields, i + 1)

\* part_005 118-135: !schema.title, !schema.fields and !Array.isArray, then
\* the loop; an empty array passes all of them
validateSchema(schema) ==
  IF \/ "title" \notin DOMAIN schema
     \/ schema.title = ""
     \/ "fields" \notin DOMAIN schema
  THEN "Invalid schema"
  ELSE validateFields(schema.fields, 1)

\* the definition createForm stores, or the error it reports.  part_004
\* takes the schema as z.any(): a missing title goes unnoticed and a missing
\* fields attribute makes the for-of throw inside the try.
createForm(schema) ==
  IF variant = "createServer"
  THEN IF schemaType(schema)
       THEN [ok |-> TRUE, schema |-> schema, error |-> ""]
       ELSE [ok |-> FALSE, schema |-> schema, error |-> "invalid arguments"]
  ELSE IF variant = "stdio"
  THEN [ok |-> validateSchema(schema) = "", schema |-> schema,
        error |-> validateSchema(schema)]
  ELSE IF "fields" \notin DOMAIN schema
  THEN [ok |-> FALSE, schema |-> schema, error |-> "schema.fields is not iterable"]
  ELSE LET n == normalizeFields(schema.fields, 1)
       IN [ok |-> n.ok, schema |-> [schema EXCEPT !.fields = n.fields], error |-> n.error]

\* a getResponses whose Error for a missing form leaves the handler
getResponsesUncaught(map, id, base) ==
  IF getForm(map, id) = {}
  THEN With(With(base, "status", 500), "page", "Internal error")
  ELSE With(With(With(base, "page", "result"),
                 "submitted", (CHOOSE r \in getForm(map, id) : TRUE).submitted),
            "responses", (CHOOSE r \in getForm(map, id) : TRUE).responses)

\* a getResponses that reports every id as a form without a submission
getResponsesOfAny(map, id, base) ==
  With(With(With(base, "page", "result"), "submitted", FALSE), "responses", {})

\* getResponses from the value of getForm on (part_004 111-127, README.md
\* 739-756 where submitted is !!formData.response)
getResponses(map, id, base) ==
  LET formData == getForm(map, id)
      rec == CHOOSE r \in formData : TRUE
  IN IF formData = {}
     THEN With(base, "page", "Error: not found")
     ELSE With(With(With(base, "page", "result"),
                    "submitted", IF variant = "createServer"
                                 THEN rec.responses # {} ELSE rec.submitted),
               "responses", rec.responses)

\* JSON-RPC messages a client may POST to /mcp
Message(method, schema, formId) == [method |-> method, schema |-> schema, formId |-> formId]
Messages ==
  {Message("initialize", FormSchema, 0), Message("tools/list", FormSchema, 0)}
  \cup {Message("createForm", sc, 0) : sc \in SchemaInputs}
  \cup {Message("getResponses", FormSchema, id) : id \in FormIds}

(* -------------------------------- Init --------------------------------- *)
\* validateFormData before it has run: no errors, no responses
NoOutput == [errors |-> EmptyObj, responses |-> EmptyObj, threw |-> FALSE]

NoProbe == [field |-> Field("", "", "", FALSE, NoOptions), value |-> Undefined,
            out |-> NoOutput]

\* no signal so far
NoShutdown == [phase |-> "none", memory |-> EmptyObj, snapshot |-> EmptyObj, code |-> 0]

\* tcp-bridge.js: the connections, none accepted yet
Connections == 1..MaxConnections
NoConnection == [socket |-> "none", child |-> "none", spawned |-> 0]

\* the server after main() of one of builds has set it up
InitBuild(builds) ==
  /\ variant \in builds
  /\ forms = EmptyObj
  /\ disk \in IF variant = "createServer" THEN {NoFile} ELSE {NoFile, File(EmptyObj)}
  /\ writes = {}
  /\ inflight = {}
  /\ nextForm = 0
  /\ transports = EmptyObj
  /\ sessionId = EmptyObj
  /\ serverOf = EmptyObj
  /\ conn = IF variant = "createServer" THEN EmptyObj ELSE (ModuleServer :> 0)
  /\ nextSid = 0
  /\ crashed = FALSE
  /\ resp = NoResponse
  /\ accepted = [id \in FormIds |-> NoneAccepted]
  /\ created = EmptyObj
  /\ closed = {}
  /\ posts = 0
  /\ shutdown = NoShutdown
  /\ bridge = [c \in Connections |-> NoConnection]

InitProgram == InitBuild(Variants)

Init == InitProgram /\ probe = NoProbe

(* ------------------------ HTTP form endpoints -------------------------- *)
\* getForm resolves without I/O: src/storage.ts, or part_003 when
\* existsSync(STORAGE_FILE) is false
ReadsMemory == variant = "index" \/ (variant = "indexReload" /\ ~disk.exists)

\* the rest of the POST handler once getForm has resolved on map
CompletePost(map, id, body) ==
  LET out == postForms(map, id, body)
  IN /\ out.committed => Cardinality(save(out.forms)) <= MaxWrites
     /\ forms' = out.forms
     /\ writes' = IF out.committed THEN save(out.forms) ELSE writes
     /\ crashed' = out.threw
     /\ resp' = out.resp
     /\ accepted' = IF out.committed
                    THEN [accepted EXCEPT ![id] = accept(@, out.resp.responses)]
                    ELSE accepted

\* a handler reaches await readFile in part_003 reload.  Up to there it has
\* used nothing of its request but the route, so the record keeps the route,
\* the session the request came through and what readFile will deliver; the
\* parameters of the request appear where the handler first uses them.
Suspend(op, sid, answered, server) ==
  /\ variant = "indexReload"
  /\ disk.exists
  /\ Cardinality(inflight) < MaxInflight
  /\ inflight' = inflight \cup
       {[op |-> op, sid |-> sid, answered |-> answered, server |-> server,
         read |-> disk.content]}

\* app.post("/forms/:id") up to the response, when getForm does no I/O
FormPost(id, body) ==
  /\ ~crashed
  /\ variant # "createServer"
  /\ ReadsMemory
  /\ posts < MaxPosts
  /\ posts' = posts + 1
  /\ CompletePost(forms, id, body)
  /\ UNCHANGED <<bridge, shutdown, probe, variant, disk, inflight, nextForm, created>>
  /\ UNCHANGED sessionVars

\* app.post("/forms/:id") up to await readFile
FormPostBegin ==
  /\ ~crashed
  /\ posts < MaxPosts
  /\ posts' = posts + 1
  /\ Suspend("POST /forms", 0, TRUE, ModuleServer)
  /\ UNCHANGED <<bridge, shutdown, probe, variant, forms, disk, writes, nextForm, crashed, accepted, created>>
  /\ resp' = NoResponse
  /\ UNCHANGED sessionVars

\* app.post("/forms/:id") from the end of the read to the response
FormPostEnd(r, id, body) ==
  /\ ~crashed
  /\ r.op = "POST /forms"
  /\ \E ok \in BOOLEAN : CompletePost(reload(forms, r.read, ok), id, body)
  /\ inflight' = inflight \ {r}
  /\ UNCHANGED <<bridge, shutdown, probe, variant, disk, nextForm, created, posts>>
  /\ UNCHANGED sessionVars

\* The form endpoints of README.md createServer, registered at 868 with
\* inMemoryStorage as their store: the source of that registerHttpEndpoints
\* is not part of the sources; it is modelled as the POST handler of
\* http-server.ts reading and writing the Map of the tools.
FormPostInMemory(id, body) ==
  /\ ~crashed
  /\ variant = "createServer"
  /\ posts < MaxPosts
  /\ posts' = posts + 1
  /\ CompletePost(forms, id, body)
  /\ UNCHANGED <<bridge, shutdown, probe, variant, disk, inflight, nextForm, created>>
  /\ UNCHANGED sessionVars

\* app.get("/forms/:id") when getForm does no I/O
FormGet(id) ==
  /\ ~crashed
  /\ variant # "createServer"
  /\ ReadsMemory
  /\ resp' = getForms(forms, id)
  /\ UNCHANGED <<bridge, shutdown, probe, variant, forms, disk, writes, inflight, nextForm, crashed, accepted, created, posts>>
  /\ UNCHANGED sessionVars

FormGetBegin ==
  /\ ~crashed
  /\ Suspend("GET /forms", 0, TRUE, ModuleServer)
  /\ UNCHANGED <<bridge, shutdown, probe, variant, forms, disk, writes, nextForm, crashed, accepted, created, posts>>
  /\ resp' = NoResponse
  /\ UNCHANGED sessionVars

FormGetEnd(r, id) ==
  /\ ~crashed
  /\ r.op = "GET /forms"
  /\ \E ok \in BOOLEAN : forms' = reload(forms, r.read, ok)
  /\ resp' = getForms(forms', id)
  /\ inflight' = inflight \ {r}
  /\ UNCHANGED <<bridge, shutdown, probe, variant, disk, writes, nextForm, crashed, accepted, created, posts>>
  /\ UNCHANGED sessionVars

(* ----------------------------- persistence ----------------------------- *)
\* a pending writeFile completes: forms.json holds that snapshot
WriteDone(w) ==
  /\ ~crashed
  /\ w \in writes
  /\ disk' = File(w)
  /\ writes' = writes \ {w}
  /\ UNCHANGED <<bridge, shutdown, probe, variant, forms, inflight, nextForm, crashed, accepted, created, posts>>
  /\ resp' = NoResponse
  /\ UNCHANGED sessionVars

\* a pending writeFile fails: save() logs the error (storage.ts 27-29)
WriteFail(w) ==
  /\ ~crashed
  /\ w \in writes
  /\ writes' = writes \ {w}
  /\ UNCHANGED <<bridge, shutdown, probe, variant, forms, disk, inflight, nextForm, crashed, accepted, created, posts>>
  /\ resp' = NoResponse
  /\ UNCHANGED sessionVars

(* --------------------------- graceful shutdown ------------------------- *)
\* SIGTERM or SIGINT (storage.ts 54-61): gracefulShutdown calls save(), which
\* serializes the map at once and awaits writeFile; the server goes on
\* handling requests meanwhile
Signal ==
  /\ ~crashed
  /\ variant # "createServer"
  /\ shutdown.phase = "none"
  /\ shutdown' = [phase |-> "saving", memory |-> forms, snapshot |-> forms, code |-> 0]
  /\ resp' = NoResponse
  /\ UNCHANGED <<bridge, probe, variant>>
  /\ UNCHANGED storeVars
  /\ UNCHANGED sessionVars

\* what forms.json holds when the write of gracefulShutdown has finished:
\* its snapshot, or that of a writeFile of an earlier save() still in
\* flight on the same file, as nothing orders the two
fileAtExit(snapshot, pending) == {File(snapshot)} \cup {File(w) : w \in pending}

\* the writeFile of gracefulShutdown resolves: process.exit(0)
ShutdownWriteDone ==
  /\ ~crashed
  /\ shutdown.phase = "saving"
  /\ disk' \in fileAtExit(shutdown.snapshot, writes)
  /\ shutdown' = [shutdown EXCEPT !.phase = "exited", !.code = 0]
  /\ crashed' = TRUE
  /\ resp' = NoResponse
  /\ UNCHANGED <<bridge, probe, variant, forms, writes, inflight, nextForm, accepted, created, posts>>
  /\ UNCHANGED sessionVars

\* the writeFile of gracefulShutdown rejects: save() logs the error
\* (storage.ts 27-29) and gracefulShutdown goes on to process.exit(0)
ShutdownWriteFail ==
  /\ ~crashed
  /\ shutdown.phase = "saving"
  /\ shutdown' = [shutdown EXCEPT !.phase = "exited", !.code = 0]
  /\ crashed' = TRUE
  /\ resp' = NoResponse
  /\ UNCHANGED <<bridge, probe, variant, forms, disk, writes, inflight, nextForm, accepted, created, posts>>
  /\ UNCHANGED sessionVars

(* ------------------------------ TCP bridge ----------------------------- *)
\* tcp-bridge.js: one socket and one child process per connection.  A socket
\* is "open", "ended" (socket.end() has shut its writable side; it closes
\* when the peer closes its side), "errored" (destroyed after an error, its
\* close event still to come) or "closed".  A child is "running",
\* "signalled" (child.kill() has sent SIGTERM), "exited" or "failed" (it
\* could not be spawned).
OtherThanBridge ==
  <<variant, forms, disk, writes, inflight, nextForm, transports, sessionId,
    serverOf, conn, nextSid, crashed, resp, accepted, created, closed, posts,
    probe, shutdown>>

\* a kill that sends no signal
killNothing(child) == child

\* child.kill(): SIGTERM to a child that runs, nothing otherwise
kill(child) == IF child = "running" THEN "signalled" ELSE child

\* socket.end(): half-closes a socket that is open
end(socket) == IF socket = "open" THEN "ended" ELSE socket

\* the connection listener (8-19): spawn the child, pipe both ways
Connection(c) ==
  /\ bridge[c].socket = "none"
  /\ bridge' = [bridge EXCEPT ![c] = [socket |-> "open", child |-> "running",
                                      spawned |-> @.spawned + 1]]
  /\ UNCHANGED OtherThanBridge

\* socket.on('error') (22-25)
SocketOnError(c) ==
  /\ bridge[c].socket \in {"open", "ended"}
  /\ bridge' = [bridge EXCEPT ![c].socket = "errored", ![c].child = kill(@)]
  /\ UNCHANGED OtherThanBridge

\* socket.on('close') (32-35): the peer has closed, or the socket was
\* destroyed after an error
SocketOnClose(c) ==
  /\ bridge[c].socket \in {"open", "ended", "errored"}
  /\ bridge' = [bridge EXCEPT ![c].socket = "closed", ![c].child = kill(@)]
  /\ UNCHANGED OtherThanBridge

\* child.on('error') (27-30): the child could not be spawned
ChildOnError(c) ==
  /\ bridge[c].child = "running"
  /\ bridge' = [bridge EXCEPT ![c].child = "failed", ![c].socket = end(@)]
  /\ UNCHANGED OtherThanBridge

\* child.on('exit') (37-40) of a child that ends by itself
ChildOnExit(c) ==
  /\ bridge[c].child = "running"
  /\ bridge' = [bridge EXCEPT ![c].child = "exited", ![c].socket = end(@)]
  /\ UNCHANGED OtherThanBridge

\* child.on('exit') (37-40) of a child that was sent SIGTERM: its
\* gracefulShutdown saves and exits (storage.ts 54-58)
ChildOnExitSignalled(c) ==
  /\ bridge[c].child = "signalled"
  /\ bridge' = [bridge EXCEPT ![c].child = "exited", ![c].socket = end(@)]
  /\ UNCHANGED OtherThanBridge

(* ------------------------------ sessions ------------------------------- *)
Remove(f, k) == [x \in (DOMAIN f) \ {k} |-> f[x]]

Registered(hdr) == hdr # 0 /\ hdr \in DOMAIN transports

\* a generator that hands out the same id again
sessionIdRepeated == IF nextSid = 0 THEN 1 ELSE nextSid

\* sessionIdGenerator: randomUUID() does not repeat
sessionIdGenerator == nextSid + 1

\* the McpServer the new transport is connected to: the module-level server
\* (part_004 22, 202) or a new createServer() (README.md 829-835)
serverFor(t) ==
  IF variant \in {"createServer", "createMcpServer"} THEN t ELSE ModuleServer

\* the tools registered on server srv: registerTool is called on the
\* module-level server (part_004 35, 102; README.md 913, 1003) or inside
\* createServer() (README.md 663, 722); the per-session McpServer of
\* README.md 1091-1094 gets none
registeredTools(srv) ==
  IF variant = "createMcpServer" /\ srv # ModuleServer
  THEN {}
  ELSE {"createForm", "getResponses"}

\* Protocol.connect binds the server to the transport it is given
connect(c, srv, t) == Put(c, srv, t)

\* an onclose that leaves the entry in the table
oncloseKeepsEntry(sid) ==
  /\ conn' = [conn EXCEPT ![serverOf[transports[sid]]] = 0]
  /\ closed' = closed \cup {sid}
  /\ UNCHANGED <<transports, sessionId, serverOf, nextSid>>

\* transport.onclose as installed by the handler and wrapped by
\* Protocol.connect: the session is deregistered and the server that was
\* connected to the transport drops its transport
onclose(sid) ==
  /\ transports' = Remove(transports, sid)
  /\ conn' = [conn EXCEPT ![serverOf[transports[sid]]] = 0]
  /\ closed' = closed \cup {sid}
  /\ UNCHANGED <<sessionId, serverOf, nextSid>>

\* a request delivered to transport t is answered when the server that
\* receives it is still bound to t (the response leaves through the
\* server's current transport)
Answers(t) == conn[serverOf[t]] = t

McpResponse(method, id, hdr, status, page) ==
  Response("POST /mcp", method, id, hdr, status, page)

\* a callback that files every transport under the first key
onsessioninitializedFirstKey(table, sid, t) == Put(table, 1, t)

\* onsessioninitialized: transports[sessionId] = transport
onsessioninitialized(table, sid, t) == Put(table, sid, t)

\* mcpPostHandler, new initialization request (part_004 180-204,
\* README.md 808-835, 850)
McpInitialize ==
  /\ ~crashed
  /\ nextSid < MaxSessions
  /\ LET sid == sessionIdGenerator
         t == sid
         srv == serverFor(t)
     IN /\ sessionId' = Put(sessionId, t, sid)
        /\ serverOf' = Put(serverOf, t, srv)
        /\ conn' = connect(conn, srv, t)
        /\ transports' = onsessioninitialized(transports, sid, t)
        /\ nextSid' = sid
        /\ resp' = With(With(McpResponse("initialize", 0, 0, 200, "initialized"),
                             "newSid", sid), "server", srv)
  /\ UNCHANGED closed
  /\ UNCHANGED <<bridge, shutdown, probe, variant>>
  /\ UNCHANGED storeVars

\* an endpoint that answers an unknown session with 404 Session not found
McpPostNotFound(hdr, msg) ==
  /\ ~crashed
  /\ ~Registered(hdr)
  /\ ~(hdr = 0 /\ msg.method = "initialize")
  /\ resp' = With(McpResponse(msg.method, msg.formId, hdr, 404, "Session not found"),
                  "code", -32001)
  /\ UNCHANGED <<bridge, shutdown, probe, variant>>
  /\ UNCHANGED storeVars
  /\ UNCHANGED sessionVars

\* mcpPostHandler, invalid request (part_004 205-216, README.md 836-847)
McpPostInvalid(hdr, msg) ==
  /\ ~crashed
  /\ ~Registered(hdr)
  /\ ~(hdr = 0 /\ msg.method = "initialize")
  /\ resp' = With(McpResponse(msg.method, msg.formId, hdr, 400,
                              "Bad Request: No valid session ID provided"),
                  "code", -32000)
  /\ UNCHANGED <<bridge, shutdown, probe, variant>>
  /\ UNCHANGED storeVars
  /\ UNCHANGED sessionVars

\* mcpPostHandler, existing transport, for a message that calls no tool:
\* a second initialize is refused by the transport, tools/list is answered
McpRequest(hdr, msg) ==
  /\ ~crashed
  /\ Registered(hdr)
  /\ \/ msg.method \in {"initialize", "tools/list"}
     \/ msg.method \in {"createForm", "getResponses"}
                          \ registeredTools(serverOf[transports[hdr]])
  /\ LET t == transports[hdr]
         tools == registeredTools(serverOf[t])
     IN resp' =
          IF msg.method = "initialize"
          THEN With(With(McpResponse("initialize", 0, hdr, 400, "Server already initialized"),
                         "code", -32600), "server", serverOf[t])
          ELSE IF tools = {} \/ (msg.method # "tools/list" /\ msg.method \notin tools)
          THEN With(With(With(McpResponse(msg.method, 0, hdr, 200, "Method not found"),
                              "code", -32601),
                         "answered", Answers(t)), "server", serverOf[t])
          ELSE With(With(With(McpResponse("tools/list", 0, hdr, 200, "tools"),
                              "listed", tools),
                         "answered", Answers(t)), "server", serverOf[t])
  /\ UNCHANGED <<bridge, shutdown, probe, variant>>
  /\ UNCHANGED storeVars
  /\ UNCHANGED sessionVars

\* an id generator that hands out the id it handed out before
randomUUIDRepeats == IF nextForm = 0 THEN 1 ELSE nextForm

\* randomUUID(): an id no earlier call has returned
randomUUID == nextForm + 1

\* a createForm that stores the record before it looks at the definition
McpCreateFormStoresFirst(limit, pending, hdr, schema) ==
  /\ ~crashed
  /\ Registered(hdr)
  /\ "createForm" \in registeredTools(serverOf[transports[hdr]])
  /\ LET t == transports[hdr]
         out == createForm(schema)
         formId == randomUUID
         map == setForm(forms, formId, Record(out.schema, {}, FALSE))
         base == With(With(McpResponse("createForm", 0, hdr, 200, ""),
                           "answered", Answers(t)), "server", serverOf[t])
     IN /\ nextForm < limit
        /\ Cardinality(save(map)) <= pending
        /\ nextForm' = formId
        /\ forms' = map
        /\ writes' = save(map)
        /\ created' = IF out.ok THEN Put(created, formId, out.schema) ELSE created
        /\ resp' = IF out.ok THEN With(With(base, "id", formId), "page", "created")
                   ELSE With(base, "page", out.error)
  /\ UNCHANGED <<bridge, shutdown, probe, variant, disk, inflight, crashed, accepted, posts>>
  /\ UNCHANGED sessionVars

\* tools/call createForm on an existing session (part_004 40-98,
\* README.md 672-718), as long as fewer than limit forms were allocated and
\* the write it starts makes at most pending writes in flight
McpCreateFormBounded(limit, pending, hdr, schema) ==
  /\ ~crashed
  /\ Registered(hdr)
  /\ "createForm" \in registeredTools(serverOf[transports[hdr]])
  /\ LET t == transports[hdr]
         out == createForm(schema)
         formId == randomUUID
         map == setForm(forms, formId, Record(out.schema, {}, FALSE))
         base == With(With(McpResponse("createForm", 0, hdr, 200, ""),
                           "answered", Answers(t)), "server", serverOf[t])
     IN IF out.ok
        THEN /\ nextForm < limit
             /\ Cardinality(save(map)) <= pending
             /\ nextForm' = formId
             /\ forms' = map
             /\ writes' = save(map)
             /\ created' = Put(created, formId, out.schema)
             /\ resp' = With(With(base, "id", formId), "page", "created")
        ELSE /\ resp' = With(base, "page", out.error)
             /\ UNCHANGED <<nextForm, forms, writes, created>>
  /\ UNCHANGED <<bridge, shutdown, probe, variant, disk, inflight, crashed, accepted, posts>>
  /\ UNCHANGED sessionVars

McpCreateFormWithin(limit, hdr, schema) ==
  McpCreateFormBounded(limit, MaxWrites, hdr, schema)

McpCreateForm(hdr, schema) == McpCreateFormWithin(MaxForms, hdr, schema)

\* part_005 CallTool createForm: the one Server on stdio, no session table
CallToolCreateForm(schema) ==
  /\ ~crashed
  /\ variant = "stdio"
  /\ LET out == createForm(schema)
         formId == randomUUID
         map == setForm(forms, formId, Record(out.schema, {}, FALSE))
         base == McpResponse("createForm", 0, 0, 200, "")
     IN IF out.ok
        THEN /\ nextForm < MaxForms
             /\ Cardinality(save(map)) <= MaxWrites
             /\ nextForm' = formId
             /\ forms' = map
             /\ writes' = save(map)
             /\ created' = Put(created, formId, out.schema)
             /\ resp' = With(With(base, "id", formId), "page", "created")
        ELSE /\ resp' = With(base, "page", out.error)
             /\ UNCHANGED <<nextForm, forms, writes, created>>
  /\ UNCHANGED <<bridge, shutdown, probe, variant, disk, inflight, crashed, accepted, posts>>
  /\ UNCHANGED sessionVars

\* part_005 CallTool getResponses: storage.getForm is called without await
\* on the Storage of src/storage.ts
CallToolGetResponses(id) ==
  /\ ~crashed
  /\ variant = "stdio"
  /\ resp' = getResponses(forms, id, McpResponse("getResponses", id, 0, 200, ""))
  /\ UNCHANGED <<bridge, shutdown, probe, variant>>
  /\ UNCHANGED storeVars
  /\ UNCHANGED sessionVars

\* tools/call getResponses on an existing session when getForm does no I/O
McpGetResponses(hdr, id) ==
  /\ ~crashed
  /\ Registered(hdr)
  /\ "getResponses" \in registeredTools(serverOf[transports[hdr]])
  /\ variant = "createServer" \/ ReadsMemory
  /\ LET t == transports[hdr]
     IN resp' = getResponses(forms, id,
                  With(With(McpResponse("getResponses", id, hdr, 200, ""),
                            "answered", Answers(t)), "server", serverOf[t]))
  /\ UNCHANGED <<bridge, shutdown, probe, variant>>
  /\ UNCHANGED storeVars
  /\ UNCHANGED sessionVars

\* tools/call getResponses up to await readFile
McpGetResponsesBegin(hdr) ==
  /\ ~crashed
  /\ Registered(hdr)
  /\ "getResponses" \in registeredTools(serverOf[transports[hdr]])
  /\ Suspend("POST /mcp", hdr, Answers(transports[hdr]), serverOf[transports[hdr]])
  /\ UNCHANGED <<bridge, shutdown, probe, variant, forms, disk, writes, nextForm, crashed, accepted, created, posts>>
  /\ resp' = NoResponse
  /\ UNCHANGED sessionVars

\* tools/call getResponses from the end of the read to the result
McpGetResponsesEnd(r, id) ==
  /\ ~crashed
  /\ r.op = "POST /mcp"
  /\ \E ok \in BOOLEAN : forms' = reload(forms, r.read, ok)
  /\ resp' = getResponses(forms', id,
               With(With(McpResponse("getResponses", id, r.sid, 200, ""),
                         "answered", r.answered /\ Registered(r.sid)), "server", r.server))
  /\ inflight' = inflight \ {r}
  /\ UNCHANGED <<bridge, shutdown, probe, variant, disk, writes, nextForm, crashed, accepted, created, posts>>
  /\ UNCHANGED sessionVars

\* a GET handler that opens a stream without looking the session up
McpGetUnchecked(hdr) ==
  /\ ~crashed
  /\ resp' = Response("GET /mcp", "", 0, hdr, 200, "stream")
  /\ UNCHANGED <<bridge, shutdown, probe, variant>>
  /\ UNCHANGED storeVars
  /\ UNCHANGED sessionVars

\* mcpGetHandler (part_004 236-245) / handleSessionRequest for GET
\* (README.md 853-866)
McpGet(hdr) ==
  /\ ~crashed
  /\ resp' = IF Registered(hdr)
             THEN With(Response("GET /mcp", "", 0, hdr, 200, "stream"),
                       "server", serverOf[transports[hdr]])
             ELSE Response("GET /mcp", "", 0, hdr, 400, "Invalid or missing session ID")
  /\ UNCHANGED <<bridge, shutdown, probe, variant>>
  /\ UNCHANGED storeVars
  /\ UNCHANGED sessionVars

\* mcpDeleteHandler (part_004 248-264) / handleSessionRequest for DELETE:
\* the transport closes itself on a DELETE of its session
McpDelete(hdr) ==
  /\ ~crashed
  /\ IF Registered(hdr)
     THEN /\ onclose(hdr)
          /\ resp' = With(Response("DELETE /mcp", "", 0, hdr, 200, "terminated"),
                          "server", serverOf[transports[hdr]])
     ELSE /\ resp' = Response("DELETE /mcp", "", 0, hdr, 400, "Invalid or missing session ID")
          /\ UNCHANGED sessionVars
  /\ UNCHANGED <<bridge, shutdown, probe, variant>>
  /\ UNCHANGED storeVars

\* the transport of a registered session closes without a DELETE
TransportClose(sid) ==
  /\ ~crashed
  /\ Registered(sid)
  /\ onclose(sid)
  /\ resp' = NoResponse
  /\ UNCHANGED <<bridge, shutdown, probe, variant>>
  /\ UNCHANGED storeVars

(* -------------------------------- Next --------------------------------- *)
Headers == 0..MaxSessions

\* the form surface and the persistence behind it
FormActions ==
  \/ \E id \in FormIds : \E body \in Bodies(id) : FormPost(id, body)
  \/ FormPostBegin
  \/ \E r \in inflight, id \in FormIds : \E body \in Bodies(id) : FormPostEnd(r, id, body)
  \/ \E id \in FormIds : FormGet(id)
  \/ FormGetBegin
  \/ \E r \in inflight, id \in FormIds : FormGetEnd(r, id)

Persistence ==
  \/ \E w \in writes : WriteDone(w)
  \/ \E w \in writes : WriteFail(w)

\* the tool calls, which reach their handler through a registered session
ToolActions ==
  \/ \E hdr \in Headers, sc \in SchemaInputs : McpCreateForm(hdr, sc)
  \/ \E hdr \in Headers, id \in FormIds : McpGetResponses(hdr, id)
  \/ \E hdr \in Headers : McpGetResponsesBegin(hdr)
  \/ \E r \in inflight, id \in FormIds : McpGetResponsesEnd(r, id)

\* the rest of the /mcp endpoint
SessionActions ==
  \/ \E hdr \in Headers, msg \in Messages : McpPostInvalid(hdr, msg)
  \/ \E hdr \in Headers, msg \in Messages : McpRequest(hdr, msg)
  \/ \E hdr \in Headers : McpGet(hdr)
  \/ \E hdr \in Headers : McpDelete(hdr)
  \/ \E sid \in SessionIds : TransportClose(sid)

Next == FormActions \/ Persistence \/ ToolActions \/ McpInitialize \/ SessionActions

Spec == Init /\ [][Next]_vars

\* The form surface: forms are created and read by one tool client, whose
\* session stays open, and submitted over HTTP.  The actions left out leave
\* every variable of the store unchanged.
FirstSession == nextSid = 0 /\ McpInitialize

NextForms == FormActions \/ Persistence \/ ToolActions \/ FirstSession

SpecForms == Init /\ [][NextForms]_vars

\* The POST handler and what it depends on: the forms createForm stores,
\* the submissions and the writes behind both.
NextPost ==
  \/ FirstSession
  \/ \E hdr \in Headers, sc \in SchemaInputs : McpCreateForm(hdr, sc)
  \/ \E id \in FormIds : \E body \in Bodies(id) : FormPost(id, body)
  \/ FormPostBegin
  \/ \E r \in inflight, id \in FormIds : \E body \in Bodies(id) : FormPostEnd(r, id, body)
  \/ Persistence

SpecPost == Init /\ [][NextPost]_vars

\* The tool router and the reads of the store: createForm and getResponses
\* through one session, the form page, and the writes behind createForm.
\* getResponses is called with the ids createForm allocates and with one it
\* never does.
RequestIds == 1..(MaxForms + 1)

NextTools ==
  \/ FirstSession
  \/ \E hdr \in Headers, sc \in SchemaInputs : McpCreateForm(hdr, sc)
  \/ \E hdr \in Headers, id \in RequestIds : McpGetResponses(hdr, id)
  \/ \E hdr \in Headers : McpGetResponsesBegin(hdr)
  \/ \E r \in inflight, id \in RequestIds : McpGetResponsesEnd(r, id)
  \/ \E id \in FormIds : FormGet(id)
  \/ FormGetBegin
  \/ \E r \in inflight, id \in FormIds : FormGetEnd(r, id)
  \/ Persistence

SpecTools == Init /\ [][NextTools]_vars

\* createForm in every build, with every shape of definition, and the
\* writes behind it.
InitCreate == InitBuild(Builds) /\ probe = NoProbe

NextCreate ==
  \/ variant # "stdio" /\ FirstSession
  \/ \E hdr \in Headers, sc \in SchemaCases : McpCreateForm(hdr, sc)
  \/ \E sc \in SchemaCases : CallToolCreateForm(sc)
  \/ Persistence

SpecCreate == InitCreate /\ [][NextCreate]_vars

\* The tool router of every build: createForm with every shape of
\* definition, getResponses with known and unknown ids, and the writes.
NextRouter ==
  \/ variant # "stdio" /\ FirstSession
  \/ \E hdr \in Headers, sc \in SchemaCases : McpCreateForm(hdr, sc)
  \/ \E hdr \in Headers, id \in RequestIds : McpGetResponses(hdr, id)
  \/ \E hdr \in Headers : McpGetResponsesBegin(hdr)
  \/ \E r \in inflight, id \in RequestIds : McpGetResponsesEnd(r, id)
  \/ \E sc \in SchemaCases : CallToolCreateForm(sc)
  \/ \E id \in RequestIds : CallToolGetResponses(id)
  \/ Persistence

SpecRouter == InitCreate /\ [][NextRouter]_vars

\* Tool calls only: createForm called through several sessions with
\* definitions that differ, and the writes behind it.
ConcurrentSchemas == {FormSchema, NoOptionsSchema, EmailSchema}

NextConcurrent ==
  \/ McpInitialize
  \/ \E hdr \in Headers, sc \in ConcurrentSchemas : McpCreateFormWithin(MaxCreates, hdr, sc)
  \/ Persistence

SpecConcurrent == Init /\ [][NextConcurrent]_vars

\* Writes that overlap: createForm is called again while the write of the
\* call before is in flight, and every writeFile succeeds, in any order.
NextOverlap ==
  \/ FirstSession
  \/ \E hdr \in Headers, sc \in ConcurrentSchemas :
       McpCreateFormBounded(MaxCreates, MaxOverlap, hdr, sc)
  \/ \E w \in writes : WriteDone(w)

SpecOverlap == Init /\ [][NextOverlap]_vars

\* What the sessions of every build with a session table offer: initialize,
\* tools/list and the tool calls, and the writes behind createForm.
InitAdvertise == InitBuild(SessionBuilds) /\ probe = NoProbe

NextAdvertise ==
  \/ McpInitialize
  \/ \E hdr \in Headers, msg \in Messages : McpRequest(hdr, msg)
  \/ \E hdr \in Headers, sc \in SchemaInputs : McpCreateForm(hdr, sc)
  \/ \E hdr \in Headers, id \in FormIds : McpGetResponses(hdr, id)
  \/ \E hdr \in Headers : McpGetResponsesBegin(hdr)
  \/ \E r \in inflight, id \in FormIds : McpGetResponsesEnd(r, id)
  \/ Persistence

SpecAdvertise == InitAdvertise /\ [][NextAdvertise]_vars

\* The store up to the end of the process: forms are created and
\* submitted, a signal arrives, gracefulShutdown saves and exits.
NextShutdown ==
  \/ NextPost
  \/ Signal
  \/ ShutdownWriteDone
  \/ ShutdownWriteFail

SpecShutdown == Init /\ [][NextShutdown]_vars

\* The POST handler in every build that stores forms through a session:
\* as NextPost, with the form endpoints of README.md createServer.
NextInMemory ==
  \/ NextPost
  \/ \E id \in FormIds : \E body \in Bodies(id) : FormPostInMemory(id, body)

SpecInMemory == Init /\ [][NextInMemory]_vars

\* Submissions and those who read them: forms of one valid definition are
\* created, submitted with a complete answer or one that lacks the required
\* field, and read by getResponses through the session, with the writes
\* behind them.
ReaderBodies(id) ==
  {[csrf_token |-> id, data |-> [f |-> Str("a"), g |-> Str("a")]],
   [csrf_token |-> id, data |-> [f |-> Undefined, g |-> Str("a")]]}

NextReaders ==
  \/ FirstSession
  \/ \E hdr \in Headers : McpCreateForm(hdr, FormSchema)
  \/ \E id \in FormIds : \E body \in ReaderBodies(id) : FormPost(id, body)
  \/ FormPostBegin
  \/ \E r \in inflight, id \in FormIds :
       \E body \in ReaderBodies(id) : FormPostEnd(r, id, body)
  \/ Persistence
  \/ \E hdr \in Headers, id \in FormIds : McpGetResponses(hdr, id)
  \/ \E hdr \in Headers : McpGetResponsesBegin(hdr)
  \/ \E r \in inflight, id \in FormIds : McpGetResponsesEnd(r, id)

SpecReaders == Init /\ [][NextReaders]_vars

\* Sessions that come and go around the store: initialize, DELETE and the
\* close of a transport, with createForm and getResponses called through
\* the sessions that are registered, and the writes behind createForm.
NextTeardown ==
  \/ McpInitialize
  \/ \E hdr \in Headers : McpDelete(hdr)
  \/ \E sid \in SessionIds : TransportClose(sid)
  \/ \E hdr \in Headers, sc \in SchemaInputs : McpCreateForm(hdr, sc)
  \/ \E hdr \in Headers, id \in FormIds : McpGetResponses(hdr, id)
  \/ \E hdr \in Headers : McpGetResponsesBegin(hdr)
  \/ \E r \in inflight, id \in FormIds : McpGetResponsesEnd(r, id)
  \/ Persistence

SpecTeardown == Init /\ [][NextTeardown]_vars

\* The TCP bridge on its own: connections are accepted, sockets fail and
\* close, children fail, end by themselves or after the signal.  A child
\* that was sent SIGTERM does exit; nothing else is bound to happen.
NextBridge ==
  \/ \E c \in Connections : Connection(c)
  \/ \E c \in Connections : SocketOnError(c)
  \/ \E c \in Connections : SocketOnClose(c)
  \/ \E c \in Connections : ChildOnError(c)
  \/ \E c \in Connections : ChildOnExit(c)
  \/ \E c \in Connections : ChildOnExitSignalled(c)

SpecBridge ==
  /\ Init
  /\ [][NextBridge]_vars
  /\ \A c \in Connections : WF_vars(ChildOnExitSignalled(c))

\* The session layer: the /mcp handlers, with initialize, tools/list and
\* tools/call createForm as the requests a session serves.  getResponses
\* and the form surface leave every variable of the session table
\* unchanged.
NextSessions ==
  \/ McpInitialize
  \/ SessionActions
  \/ \E hdr \in Headers, sc \in SchemaInputs : McpCreateForm(hdr, sc)
  \/ Persistence

SpecSessions == Init /\ [][NextSessions]_vars

\* validateFormData on its own: Init draws a field and a submitted value,
\* Validate applies the function to the form made of that field.
InitValidate ==
  /\ InitProgram
  /\ variant = "index"
  /\ disk = NoFile
  /\ probe \in [field : ProbeFields, value : ProbeValues, out : {NoOutput}]

Validate ==
  /\ probe.out = NoOutput
  /\ probe' = [probe EXCEPT !.out =
                 validateFormData([title |-> "P", fields |-> <<probe.field>>],
                                  [f |-> probe.value])]
  /\ UNCHANGED <<bridge, shutdown, variant>>
  /\ UNCHANGED storeVars
  /\ UNCHANGED resp
  /\ UNCHANGED sessionVars

SpecValidate == InitValidate /\ [][Validate]_vars

TypeOK ==
  /\ variant \in Builds \cup SessionBuilds
  /\ DOMAIN forms \subseteq 1..MaxCreates
  /\ nextForm \in 0..MaxCreates
  /\ nextSid \in 0..MaxSessions
  /\ DOMAIN transports \subseteq SessionIds
  /\ crashed \in BOOLEAN

(* ------------------------------- claims -------------------------------- *)
\* a step in which POST /forms/:id answers
PostAnswered == resp'.op = "POST /forms" /\ (posts' # posts \/ inflight' # inflight)

\* C1: exactly-once submission: for every form at most one POST is answered
\* with the success page, and whenever the record holds a submission it
\* holds the values of that first winner, never those of a later POST.
C1_ExactlyOnce ==
  \A id \in FormIds :
    /\ accepted[id].count <= 1
    /\ (id \in DOMAIN forms /\ forms[id].submitted)
         => forms[id].responses = accepted[id].first

\* C2: SUBMITTED is terminal: a record that holds a submission is still
\* there, still submitted and with the same responses after every step.
C2_SubmittedTerminal ==
  [][\A id \in DOMAIN forms :
       forms[id].submitted => (id \in DOMAIN forms' /\ forms'[id] = forms[id])]_vars

\* C3: once createForm has returned an id, every getResponses on it, as long
\* as no submission was accepted, finds the record, reports submitted=false
\* and responses=null, and the stored definition is the one createForm
\* validated.
C3_CreateThenGet ==
  (/\ resp.op = "POST /mcp"
   /\ resp.method = "getResponses"
   /\ resp.id \in DOMAIN created
   /\ accepted[resp.id].count = 0)
  => /\ resp.page = "result"
     /\ ~resp.submitted
     /\ resp.responses = {}
     /\ resp.id \in DOMAIN forms
     /\ forms[resp.id].schema = created[resp.id]

\* C4: round trip: once a POST was answered with the success page for the
\* values V, getResponses on that form reports submitted=true and the
\* responses V.
C4_RoundTrip ==
  (/\ resp.op = "POST /mcp"
   /\ resp.method = "getResponses"
   /\ resp.id \in FormIds
   /\ accepted[resp.id].count = 1)
  => /\ resp.page = "result"
     /\ resp.submitted
     /\ resp.responses = accepted[resp.id].first

McpAnswered == resp'.op \in {"POST /mcp", "GET /mcp", "DELETE /mcp"}
               /\ resp' # resp /\ inflight' = inflight

\* C5: every registered session has a server instance of its own: the
\* instance is bound to the session's transport and no two registered
\* sessions share one.
C5_OwnInstance ==
  \A s \in DOMAIN transports :
    /\ conn[serverOf[transports[s]]] = transports[s]
    /\ \A o \in DOMAIN transports :
         o # s => serverOf[transports[o]] # serverOf[transports[s]]

\* C6: closing a session leaves every other session registered, and a
\* request that bears the id of a registered session after another one was
\* closed is delivered to that session's instance and answered.
C6_CloseIsolated ==
  [][/\ \A b \in DOMAIN transports :
          (closed' # closed /\ b \notin closed')
            => (b \in DOMAIN transports' /\ transports'[b] = transports[b])
     /\ (/\ McpAnswered
         /\ resp'.op = "POST /mcp"
         /\ resp'.status = 200
         /\ Registered(resp'.sid)
         /\ closed # {})
          => /\ resp'.answered
             /\ resp'.server = serverOf[transports[resp'.sid]]]_vars

\* C7: an initialization POST without a session header is answered 200 with
\* an id that was never handed out, the new transport is registered under
\* it and bound to a server instance, the other entries stay, and a POST or
\* GET that bears a registered id is never refused as an invalid session.
C7_InitializeRegisters ==
  [][/\ (McpAnswered /\ resp'.method = "initialize" /\ resp'.sid = 0)
          => LET sid == resp'.newSid
             IN /\ resp'.status = 200
                /\ sid \notin 0..nextSid
                /\ sid \notin closed
                /\ sid \in DOMAIN transports'
                /\ sessionId'[transports'[sid]] = sid
                /\ conn'[serverOf'[transports'[sid]]] = transports'[sid]
                /\ \A o \in DOMAIN transports : transports'[o] = transports[o]
     /\ (McpAnswered /\ resp'.op # "DELETE /mcp" /\ Registered(resp'.sid))
          => (resp'.code # -32000 /\ resp'.page # "Invalid or missing session ID")]_vars

\* a second session was initialized after the first one was closed
C7_Witness ==
  /\ resp.method = "initialize"
  /\ resp.status = 200
  /\ resp.newSid = 2
  /\ 2 \in DOMAIN transports
  /\ 1 \in closed

\* C8: a POST that is not an initialization request and bears no session id
\* or an unregistered one is answered HTTP 400 with JSON-RPC code -32000 and
\* message "Bad Request: No valid session ID provided"; no session is
\* created and the table is unchanged.
C8_InvalidSessionRejected ==
  [][(/\ McpAnswered
      /\ resp'.op = "POST /mcp"
      /\ resp'.method # "initialize"
      /\ ~Registered(resp'.sid))
       => /\ resp'.status = 400
          /\ resp'.code = -32000
          /\ resp'.page = "Bad Request: No valid session ID provided"
          /\ resp'.newSid = 0
          /\ UNCHANGED sessionVars]_vars

\* a tool call without a valid session id was refused while a session exists
C8_Witness ==
  /\ resp.op = "POST /mcp"
  /\ resp.method = "createForm"
  /\ resp.status = 400
  /\ resp.code = -32000
  /\ ~Registered(resp.sid)
  /\ DOMAIN transports # {}

\* C9: a DELETE on a registered session, or the close of its transport,
\* removes the id from the table, a closed id is never in the table, and a
\* POST, GET or DELETE that bears a closed id is answered 400.
C9_ClosedIsGone ==
  [][/\ closed' \cap DOMAIN transports' = {}
     /\ (McpAnswered /\ resp'.op = "DELETE /mcp" /\ Registered(resp'.sid))
          => (resp'.sid \in closed' /\ resp'.sid \notin DOMAIN transports')
     /\ (McpAnswered /\ resp'.sid \in closed)
          => resp'.status = 400]_vars

\* a request that bears the id of a deleted session was refused
C9_Witness ==
  /\ resp.op \in {"GET /mcp", "DELETE /mcp"}
  /\ resp.sid \in closed
  /\ resp.status = 400
  /\ DOMAIN transports # {}

Validated == probe.out # NoOutput
\* the probed value is absent or empty: no value or "" for a scalar field,
\* no value or an empty selection for a checkbox
EmptyValue ==
  IF probe.field.type = "checkbox"
  THEN probe.value \in {Undefined, Arr(<<>>)}
  ELSE probe.value \in {Undefined, Str("")}

\* C12: an absent or empty value (for a checkbox: an empty selection) of a
\* required field is rejected with the 'required' error of that field; of a
\* field that is not required it is accepted without any error.
C12_Required ==
  (Validated /\ EmptyValue)
    => /\ ~probe.out.threw
       /\ IF probe.field.required
          THEN /\ "f" \in DOMAIN probe.out.errors
               /\ probe.out.errors["f"] = "required"
          ELSE DOMAIN probe.out.errors = {}

\* a required field was submitted empty and got its 'required' error
C12_Witness ==
  /\ Validated
  /\ EmptyValue
  /\ probe.field.required
  /\ probe.field.type = "select"
  /\ probe.value = Str("")
  /\ DOMAIN probe.out.errors = {"f"}

Selection ==
  IF probe.value.kind = "undefined" THEN <<>>
  ELSE IF probe.value.kind = "array" THEN probe.value.items
  ELSE <<probe.value.items[1]>>

GetResponsesReturns ==
  /\ resp'.op = "POST /mcp"
  /\ resp'.method = "getResponses"
  /\ resp'.page \in {"result", "Error: not found"}

\* C15: a getResponses call on a form that is stored and has no submission
\* returns submitted=false and responses=null and leaves the store as it
\* was: the same records, definitions and submission states.
C15_IdempotentRead ==
  [][(/\ GetResponsesReturns
      /\ resp'.id \in DOMAIN forms
      /\ ~forms[resp'.id].submitted
      /\ accepted[resp'.id].count = 0)
     => /\ resp'.page = "result"
        /\ ~resp'.submitted
        /\ resp'.responses = {}
        /\ forms' = forms]_vars

\* tools/call getResponses has returned its result
GetResponsesReturned ==
  /\ resp.op = "POST /mcp"
  /\ resp.method = "getResponses"
  /\ resp.page \in {"result", "Error: not found"}

\* C16: getResponses with an id that createForm never returned answers, on
\* the transport, with the error result "Form <id> not found" for that id;
\* the process does not die of it and no record of that id exists
\* afterwards.
C16_UnknownId ==
  (GetResponsesReturned /\ resp.id \notin DOMAIN created)
    => /\ resp.page = "Error: not found"
       /\ resp.status = 200
       /\ ~crashed
       /\ resp.id \notin DOMAIN forms

\* getResponses has answered "not found" for an id no createForm returned
C16_Witness ==
  /\ GetResponsesReturned
  /\ resp.id \notin DOMAIN created
  /\ resp.page = "Error: not found"
  /\ resp.answered
  /\ created # EmptyObj

\* C17: GET /forms/:id answers by the state of the record and leaves the
\* store as it was: 404 "Form Not Found" for an id without record, 200 with
\* the form for an OPEN record, 200 with the "already submitted" page for a
\* SUBMITTED one.
C17_GetByState ==
  [][(resp'.op = "GET /forms" /\ resp'.page # "")
     => LET id == resp'.id
        IN /\ forms' = forms
           /\ id \notin DOMAIN forms
                => (resp'.status = 404 /\ resp'.page = "not found")
           /\ (id \in DOMAIN forms /\ ~forms[id].submitted)
                => (resp'.status = 200 /\ resp'.page = "form")
           /\ (id \in DOMAIN forms /\ forms[id].submitted)
                => (resp'.status = 200 /\ resp'.page = "already submitted")]_vars

\* GET /forms/:id has answered
FormGetAnswered == resp.op = "GET /forms" /\ resp.page # ""

\* C18: the form pages and the tools work on one store: a GET on the url of
\* a form createForm returned finds that record (200 with the form while no
\* submission was accepted, the "already submitted" page afterwards), and
\* getResponses reports the submission POST accepted on it.
C18_OneStore ==
  /\ (FormGetAnswered /\ resp.id \in DOMAIN created)
       => /\ resp.status = 200
          /\ resp.page = IF accepted[resp.id].count = 0
                         THEN "form" ELSE "already submitted"
          /\ resp.id \in DOMAIN forms
          /\ forms[resp.id].schema = created[resp.id]
  /\ (GetResponsesReturned /\ resp.id \in DOMAIN created
        /\ accepted[resp.id].count > 0)
       => /\ resp.page = "result"
          /\ resp.submitted
          /\ resp.responses = accepted[resp.id].first

\* a step in which createForm is called with the definition sc
CreateFormCalled(sc) ==
  \/ \E hdr \in Headers : McpCreateForm(hdr, sc)
  \/ CallToolCreateForm(sc)

\* sc has a select, radio or checkbox field whose options are absent or empty
LacksOptions(sc) ==
  /\ "fields" \in DOMAIN sc
  /\ \E i \in 1..Len(sc.fields) :
       /\ sc.fields[i].type \in {"select", "radio", "checkbox"}
       /\ ~sc.fields[i].options.present \/ Len(sc.fields[i].options.items) = 0

\* C19: createForm called with a definition that has a choice field without
\* options, or with an empty options array, answers with the error "Field
\* type <kind> requires options array" and stores no record.
C19_OptionsRequired ==
  [][\A sc \in SchemaCases :
       (CreateFormCalled(sc) /\ LacksOptions(sc))
         => /\ resp'.page = "requires options"
            /\ forms' = forms
            /\ created' = created]_vars

\* sc has no title, no fields attribute or an empty fields list
Incomplete(sc) ==
  \/ "title" \notin DOMAIN sc
  \/ "fields" \notin DOMAIN sc
  \/ sc.fields = << >>

\* C20: createForm called with a definition without title, without fields
\* attribute or with an empty fields list fails and stores no record.
C20_MissingParts ==
  [][\A sc \in SchemaCases :
       (CreateFormCalled(sc) /\ Incomplete(sc))
         => /\ resp'.page # "created"
            /\ forms' = forms
            /\ created' = created]_vars

\* sc is a complete definition in which some field is identified by its
\* name only and no field lacks both id and name
NamedOnly(sc) ==
  /\ ~Incomplete(sc)
  /\ ~LacksOptions(sc)
  /\ \A i \in 1..Len(sc.fields) : sc.fields[i].id # "" \/ sc.fields[i].name # ""
  /\ \E i \in 1..Len(sc.fields) : sc.fields[i].id = ""

\* some field of sc has neither id nor name
Anonymous(sc) ==
  /\ "fields" \in DOMAIN sc
  /\ \E i \in 1..Len(sc.fields) : sc.fields[i].id = "" /\ sc.fields[i].name = ""

\* C21: createForm called with a definition in which a field has a name but
\* no id creates the form, and the stored field is identified by that name;
\* called with a field that has neither, it fails and stores nothing.
C21_NameFallback ==
  [][\A sc \in SchemaCases :
       CreateFormCalled(sc)
         => /\ NamedOnly(sc)
                 => /\ resp'.page = "created"
                    /\ resp'.id \in DOMAIN forms'
                    /\ \A i \in 1..Len(sc.fields) :
                         forms'[resp'.id].schema.fields[i].id =
                           IF sc.fields[i].id = "" THEN sc.fields[i].name
                           ELSE sc.fields[i].id
            /\ Anonymous(sc)
                 => /\ resp'.page # "created"
                    /\ forms' = forms]_vars

\* some field of sc is of a kind outside the type enum
UnknownKind(sc) ==
  /\ "fields" \in DOMAIN sc
  /\ \E i \in 1..Len(sc.fields) : sc.fields[i].type \notin FieldTypes

\* sc is complete, every field has an id, choice fields have options and
\* every kind is one of the type enum
WellFormed(sc) ==
  /\ ~Incomplete(sc)
  /\ ~LacksOptions(sc)
  /\ ~UnknownKind(sc)
  /\ \A i \in 1..Len(sc.fields) : sc.fields[i].id # ""

\* C22: createForm fails, storing nothing, when a field is of a kind outside
\* text, textarea, select, radio, checkbox and email, and accepts a
\* definition, valid otherwise, whose kinds are all of that set.
C22_FieldKinds ==
  [][\A sc \in SchemaCases :
       CreateFormCalled(sc)
         => /\ UnknownKind(sc)
                 => /\ resp'.page # "created"
                    /\ forms' = forms
                    /\ created' = created
            /\ WellFormed(sc) => resp'.page = "created"]_vars

\* the texts of the isError results of the tool handlers
ToolErrors ==
  {"must have id or name", "requires options", "schema.fields is not iterable",
   "Invalid schema", "Invalid field", "Invalid field type", "Error: not found"}

\* a step in which createForm or getResponses is answered
ToolReturns ==
  /\ resp'.op = "POST /mcp"
  /\ resp'.method \in {"createForm", "getResponses"}
  /\ resp'.page # ""

\* C23: every answer to createForm or getResponses is a result: the ids of
\* the new form, the submission state, or, for an error raised in the
\* handler, the isError result "Error: <message>"; the call is answered with
\* status 200 and the process is up afterwards.  (A call whose arguments do
\* not parse under the registered input schema never reaches the handler.)
C23_ErrorsAreResults ==
  [][ToolReturns
       => /\ ~crashed'
          /\ resp'.status = 200
          /\ resp'.page \in {"created", "result", "invalid arguments"} \cup ToolErrors
          /\ resp'.page \in ToolErrors
               => (forms' = forms \/ inflight' # inflight)]_vars

\* the Error for a missing form has come back as a result, the process is up
C23_Witness ==
  /\ resp.op = "POST /mcp"
  /\ resp.method = "getResponses"
  /\ resp.page = "Error: not found"
  /\ resp.status = 200
  /\ ~crashed
  /\ created # EmptyObj

\* a step in which createForm, called through a session with the
\* definition sc, returns a new form
CreateFormSucceeds(sc) ==
  /\ \E hdr \in Headers : McpCreateFormWithin(MaxCreates, hdr, sc)
  /\ resp'.page = "created"

ReadReturns ==
  \/ GetResponsesReturns
  \/ resp'.op = "GET /forms" /\ resp'.page # ""

\* forms.json does not hold what the memory holds: a write is pending, has
\* failed or was never made
FileBehind == writes # {} \/ ~disk.exists \/ disk.content # forms

\* C25: whatever forms.json holds while a write is pending or after it
\* failed, a getResponses or GET on a record of the memory reports that
\* record: it exists, and it is submitted with its responses if the memory
\* says so.
C25_MemoryIsTruth ==
  [][(ReadReturns /\ FileBehind /\ resp'.id \in DOMAIN forms)
       => IF resp'.op = "GET /forms"
          THEN resp'.page = IF forms[resp'.id].submitted
                            THEN "already submitted" ELSE "form"
          ELSE /\ resp'.page = "result"
               /\ resp'.submitted = forms[resp'.id].submitted
               /\ resp'.responses = forms[resp'.id].responses]_vars

\* a step in which a request that arrived on session s is answered at once,
\* without having waited for a read
AnsweredAtOnce(s) ==
  /\ resp'.op = "POST /mcp"
  /\ resp'.sid = s
  /\ resp'.page # ""
  /\ resp' # resp
  /\ inflight' = inflight

\* C26: requests of one session are answered in the order of their arrival:
\* no request of a session is answered while an earlier request of that
\* session is still waiting for its store read.
C26_SessionOrder ==
  [][\A s \in SessionIds :
       AnsweredAtOnce(s)
         => ~\E r \in inflight : r.op = "POST /mcp" /\ r.sid = s]_vars

\* C27: every initialized session offers the two tools: the server its
\* transport is connected to has createForm and getResponses registered,
\* tools/list on the session lists exactly these two, and a tools/call of
\* either is answered by its handler.
C27_TwoTools ==
  /\ \A sid \in DOMAIN transports :
       registeredTools(serverOf[transports[sid]]) = {"createForm", "getResponses"}
  /\ (resp.op = "POST /mcp" /\ resp.method = "tools/list" /\ resp.status = 200)
       => (resp.page = "tools" /\ resp.listed = {"createForm", "getResponses"})
  /\ (resp.op = "POST /mcp" /\ resp.method \in {"createForm", "getResponses"}
        /\ resp.status = 200)
       => resp.page # "Method not found"

\* C28: when the process has exited after SIGTERM or SIGINT, its exit
\* status is 0 and forms.json holds every record, with its submission, that
\* the memory held when the signal came.
C28_SavedAtExit ==
  shutdown.phase = "exited"
    => /\ shutdown.code = 0
       /\ \A id \in DOMAIN shutdown.memory :
            /\ id \in DOMAIN disk.content
            /\ disk.content[id] = shutdown.memory[id]

\* the value v stored for the choice field is covered by the field's
\* options: every element of a checkbox list, the string of a select or
\* radio, or the empty string of a field that is not required
WithinOptions(field, v) ==
  IF field.type = "checkbox"
  THEN /\ v.kind = "array"
       /\ \A i \in 1..Len(v.items) :
            field.options.present /\ includes(field.options.items, v.items[i])
  ELSE \/ v = Str("") /\ ~field.required
       \/ /\ v.kind = "string"
          /\ field.options.present
          /\ includes(field.options.items, v.items[1])

C30_StoredShape ==
  (Validated /\ ~probe.out.threw /\ DOMAIN probe.out.errors = {})
    => /\ "f" \in DOMAIN probe.out.responses
       /\ probe.out.responses["f"].kind =
            IF probe.field.type = "checkbox" THEN "array" ELSE "string"

\* the definition has no two fields with the same id
DistinctIds(schema) ==
  \A i, j \in 1..Len(schema.fields) :
    i # j => schema.fields[i].id # schema.fields[j].id

\* C31: every definition in the store has pairwise distinct field ids, the
\* ids taken from a name included.
C31_DistinctIds == \A id \in DOMAIN forms : DistinctIds(forms[id].schema)

\* C32: a definition never changes once createForm has stored it: after
\* every step each record of the store is still there with the definition
\* it had, and a step in which a POST on a form is answered leaves the
\* record of every other form as it was.
C32_DefinitionImmutable ==
  [][/\ \A id \in DOMAIN forms :
          id \in DOMAIN forms' /\ forms'[id].schema = forms[id].schema
     /\ PostAnswered
          => \A id \in DOMAIN forms :
               id # resp'.id => (id \in DOMAIN forms' /\ forms'[id] = forms[id])]_vars

\* C33: a step that registers or removes a session leaves the store as it
\* was (records, file, pending writes), and once a session is gone a
\* getResponses through any session still registered, on a record the store
\* holds, is answered with the state of that record.
C33_TeardownKeepsStore ==
  [][/\ transports' # transports
          => (forms' = forms /\ disk' = disk /\ writes' = writes /\ created' = created)
     /\ (/\ GetResponsesReturns
         /\ Registered(resp'.sid)
         /\ resp'.id \in DOMAIN forms'
         /\ closed' # {})
          => /\ resp'.answered
             /\ resp'.page = "result"]_vars

\* C34: the session table after every step: each key maps to the transport
\* whose own session id is that key, no transport is filed under two keys,
\* no entry belongs to a session that was closed, and the id an
\* initialization hands out is not the key of an entry of the table.
C34_SessionTable ==
  [][/\ \A k \in DOMAIN transports' : sessionId'[transports'[k]] = k
     /\ \A k, l \in DOMAIN transports' : transports'[k] = transports'[l] => k = l
     /\ \A k \in DOMAIN transports' : sessionId'[transports'[k]] \notin closed'
     /\ (McpAnswered /\ resp'.method = "initialize" /\ resp'.status = 200)
          => (resp'.newSid \notin DOMAIN transports
              /\ DOMAIN transports' = DOMAIN transports \cup {resp'.newSid})]_vars

\* two sessions were registered and the first was terminated by a DELETE:
\* the table holds the second one only
C34_Witness ==
  /\ DOMAIN transports = {2}
  /\ sessionId[transports[2]] = 2
  /\ closed = {1}
  /\ resp.op = "DELETE /mcp"
  /\ resp.status = 200

\* every record of the map m is submitted exactly when it has responses
Consistent(m) == \A id \in DOMAIN m : m[id].submitted <=> m[id].responses # {}

\* C35: submitted is true exactly when responses is not null, in every
\* record of the memory, of forms.json, of a snapshot on its way to the file
\* and of a map a handler has read from the file, and in every result of
\* getResponses.
C35_SubmittedIffResponses ==
  /\ Consistent(forms)
  /\ Consistent(disk.content)
  /\ \A w \in writes : Consistent(w)
  /\ \A r \in inflight : Consistent(r.read)
  /\ (GetResponsesReturned /\ resp.page = "result")
       => (resp.submitted <=> resp.responses # {})

\* getResponses has reported a submission while the snapshot that holds it
\* is still on its way to the file
C35_Witness ==
  /\ GetResponsesReturned
  /\ resp.submitted
  /\ resp.responses # {}
  /\ resp.id \in DOMAIN forms
  /\ forms[resp.id].submitted
  /\ writes # {}

\* C36: the file follows the memory: a createForm that stores a record
\* starts a write of the whole map as it then is, and whenever no write is
\* in flight, none having failed, forms.json holds the map of the memory,
\* also after two writes that overlapped.
C36_FileConverges ==
  /\ (variant # "createServer" /\ writes = {} /\ forms # EmptyObj)
       => (disk.exists /\ disk.content = forms)
  /\ (variant # "createServer" /\ resp.page = "created" /\ resp.id \in DOMAIN forms)
       => (forms \in writes \/ (disk.exists /\ disk.content = forms))

\* a step that answers a request to /mcp which bears the id of no
\* registered session, or a GET or DELETE which bears no id at all
Sessionless ==
  /\ McpAnswered
  /\ ~Registered(resp'.sid)
  /\ resp'.sid # 0 \/ resp'.op \in {"GET /mcp", "DELETE /mcp"}

\* C37: a POST, GET or DELETE on /mcp with a session id that is not
\* registered, an initialize request included, and a GET or DELETE without
\* session id, is answered 400; no session is created and the session table
\* and the transports are as before.
C37_UnknownSessionRejected ==
  [][Sessionless
       => /\ resp'.status = 400
          /\ resp'.newSid = 0
          /\ UNCHANGED sessionVars]_vars

\* an initialize request that bears the id of a session terminated before
\* was refused while another session is registered
C37_Witness ==
  /\ resp.op = "POST /mcp"
  /\ resp.method = "initialize"
  /\ resp.sid \in closed
  /\ resp.status = 400
  /\ resp.sid \notin DOMAIN transports
  /\ DOMAIN transports # {}

\* C38: POST /forms/:id always ends with a response and the process up; on
\* an OPEN form with the right token the response is the success page,
\* the record committed, or the form with its errors, nothing committed.
C38_PostCompletes ==
  [][PostAnswered
       => /\ ~crashed'
          /\ resp'.page \in {"success", "form with errors", "already submitted",
                             "invalid csrf token", "not found"}
          /\ resp'.page = "success"
               => (resp'.id \in DOMAIN forms' /\ forms'[resp'.id].submitted)
          /\ resp'.page = "form with errors"
               => (resp'.id \in DOMAIN forms' /\ ~forms'[resp'.id].submitted)]_vars

\* a step in which createForm answers with an error
CreateFormFails ==
  /\ resp'.op = "POST /mcp"
  /\ resp'.method = "createForm"
  /\ resp'.status = 200
  /\ resp'.page \notin {"", "created"}

\* C39: a createForm call that answers with an error leaves the store as it
\* was: no record is added or changed, no id is used up, no write is
\* started, the file is untouched and /health reports the same number of
\* forms.
C39_FailedCreateIsNoop ==
  [][CreateFormFails
       => /\ forms' = forms
          /\ created' = created
          /\ nextForm' = nextForm
          /\ writes' = writes
          /\ disk' = disk
          /\ health(forms') = health(forms)]_vars

\* createForm has refused a definition while the store holds a form
C39_Witness ==
  /\ resp.op = "POST /mcp"
  /\ resp.method = "createForm"
  /\ resp.page \in {"requires options", "must have id or name", "Invalid field",
                    "invalid arguments"}
  /\ health(forms) = 1
  /\ created # EmptyObj

\* the socket of connection c is gone: closed, or destroyed after an error
SocketGone(c) == bridge[c].socket \in {"errored", "closed"}

\* the child of connection c is gone: it has exited or was never spawned
ChildGone(c) == bridge[c].child \in {"exited", "failed"}

\* C40: every connection the bridge has accepted has spawned exactly one
\* child; once the socket of a connection is gone its child has been
\* killed, and it does exit; once the child is gone its socket has been
\* ended; and a step of one connection leaves the socket and the child of
\* every other connection as they were.
C40_BridgeCoupling ==
  /\ [](\A c \in Connections :
          /\ bridge[c].socket # "none" => bridge[c].spawned = 1
          /\ SocketGone(c) => bridge[c].child \in {"signalled", "exited", "failed"}
          /\ ChildGone(c) => bridge[c].socket \in {"ended", "errored", "closed"})
  /\ [][\A c, d \in Connections :
          (bridge'[c] # bridge[c] /\ d # c) => bridge'[d] = bridge[d]]_vars
  /\ \A c \in Connections : SocketGone(c) ~> ChildGone(c)

\* the first connection is over, socket closed and child exited, while the
\* second has its socket open and its child running
C40_Witness ==
  /\ bridge[1].socket = "closed"
  /\ bridge[1].child = "exited"
  /\ bridge[2].socket = "open"
  /\ bridge[2].child = "running"

====
